---------------------------- MODULE Spec2Model ----------------------------
(***************************************************************************)
(* AD936x transceiver (src/ad936x.py): the sample_rate setter, which       *)
(* selects a FIR profile, programs it and sequences the device-attribute   *)
(* writes around it, and rx_only, which assembles complex samples from the *)
(* interleaved receive buffer.  Python strings are sequences of            *)
(* one-character strings; a complex number is a record [re, im].           *)
(***************************************************************************)
EXTENDS Integers, Sequences, FiniteSets, TLC

\* ------------------------------------------------------------ bounds
\* Longest raw buffer _rx_buffered_data() hands back.
MaxBuf == 4

\* Component values a raw buffer is made of.
RawValues == {1, 2}

\* Requested rates: each threshold of the setter and its neighbour.
Rates ==
    {1, 520999, 521000, 2083333, 2083334, 20000000, 20000001,
     40000000, 40000001, 53333333, 53333334, 61440000}

\* voltage0/sampling_frequency of the device when the object is constructed.
InitialRates == {1000000, 30720000}

\* ------------------------------------------------------------ constants
MIN_RATE == 521000
RATE_BRACKET_1 == 20000000
RATE_BRACKET_2 == 40000000
RATE_BRACKET_3 == 53333333
BOOTSTRAP_RATE == 3000000
NARROWBAND_MAX == 25000000 \div 12

FIR_128_4 ==
    << -15, -27, -23, -6, 17, 33, 31, 9, -23, -47, -45, -13, 34, 69, 67, 21,
       -49, -102, -99, -32, 69, 146, 143, 48, -96, -204, -200, -69, 129,
       278, 275, 97, -170, -372, -371, -135, 222, 494, 497, 187, -288, -654,
       -665, -258, 376, 875, 902, 363, -500, -1201, -1265, -530, 699, 1748,
       1906, 845, -1089, -2922, -3424, -1697, 2326, 7714, 12821, 15921,
       15921, 12821, 7714, 2326, -1697, -3424, -2922, -1089, 845, 1906,
       1748, 699, -530, -1265, -1201, -500, 363, 902, 875, 376, -258, -665,
       -654, -288, 187, 497, 494, 222, -135, -371, -372, -170, 97, 275, 278,
       129, -69, -200, -204, -96, 48, 143, 146, 69, -32, -99, -102, -49, 21,
       67, 69, 34, -13, -45, -47, -23, 9, 31, 33, 17, -6, -23, -27, -15 >>

FIR_128_2 ==
    << 0, 0, 1, 0, -2, 0, 3, 0, -5, 0, 8, 0, -11, 0, 17, 0, -24, 0, 33, 0,
       -45, 0, 61, 0, -80, 0, 104, 0, -134, 0, 169, 0, -213, 0, 264, 0,
       -327, 0, 401, 0, -489, 0, 595, 0, -724, 0, 880, 0, -1075, 0, 1323, 0,
       -1652, 0, 2114, 0, -2819, 0, 4056, 0, -6883, 0, 20837, 32767, 20837,
       0, -6883, 0, 4056, 0, -2819, 0, 2114, 0, -1652, 0, 1323, 0, -1075, 0,
       880, 0, -724, 0, 595, 0, -489, 0, 401, 0, -327, 0, 264, 0, -213, 0,
       169, 0, -134, 0, 104, 0, -80, 0, 61, 0, -45, 0, 33, 0, -24, 0, 17, 0,
       -11, 0, 8, 0, -5, 0, 3, 0, -2, 0, 1, 0, 0, 0 >>

FIR_96_2 ==
    << -4, 0, 8, 0, -14, 0, 23, 0, -36, 0, 52, 0, -75, 0, 104, 0, -140, 0,
       186, 0, -243, 0, 314, 0, -400, 0, 505, 0, -634, 0, 793, 0, -993, 0,
       1247, 0, -1585, 0, 2056, 0, -2773, 0, 4022, 0, -6862, 0, 20830,
       32767, 20830, 0, -6862, 0, 4022, 0, -2773, 0, 2056, 0, -1585, 0,
       1247, 0, -993, 0, 793, 0, -634, 0, 505, 0, -400, 0, 314, 0, -243, 0,
       186, 0, -140, 0, 104, 0, -75, 0, 52, 0, -36, 0, 23, 0, -14, 0, 8, 0,
       -4, 0 >>

FIR_64_2 ==
    << -58, 0, 83, 0, -127, 0, 185, 0, -262, 0, 361, 0, -488, 0, 648, 0,
       -853, 0, 1117, 0, -1466, 0, 1954, 0, -2689, 0, 3960, 0, -6825, 0,
       20818, 32767, 20818, 0, -6825, 0, 3960, 0, -2689, 0, 1954, 0, -1466,
       0, 1117, 0, -853, 0, 648, 0, -488, 0, 361, 0, -262, 0, 185, 0, -127,
       0, 83, 0, -58, 0 >>

\* "RX 3 GAIN -6 DEC "
RX_HEADER ==
    << "R", "X", " ", "3", " ", "G", "A", "I", "N", " ", "-", "6", " ", "D",
       "E", "C", " " >>

\* "TX 3 GAIN 0 INT "
TX_HEADER ==
    << "T", "X", " ", "3", " ", "G", "A", "I", "N", " ", "0", " ", "I", "N",
       "T", " " >>

\* ------------------------------------------------------------ device strings
\* Values the device attribute tx_path_rates may read as.
\* "BBPLL:64 DAC:32 T2:32 T1:16 TF:8 TXSAMP:4"
RATES_RATIO_8 ==
    << "B", "B", "P", "L", "L", ":", "6", "4", " ", "D", "A", "C", ":", "3",
       "2", " ", "T", "2", ":", "3", "2", " ", "T", "1", ":", "1", "6", " ",
       "T", "F", ":", "8", " ", "T", "X", "S", "A", "M", "P", ":", "4" >>

\* "BBPLL:64 DAC:31 T2:31 T1:16 TF:8 TXSAMP:4"
RATES_RATIO_7 ==
    << "B", "B", "P", "L", "L", ":", "6", "4", " ", "D", "A", "C", ":", "3",
       "1", " ", "T", "2", ":", "3", "1", " ", "T", "1", ":", "1", "6", " ",
       "T", "F", ":", "8", " ", "T", "X", "S", "A", "M", "P", ":", "4" >>

\* "BBPLL:768000000 DAC:48000000 T2:24000000 T1:12000000 TF:12000000 TXSAMP:3000000"
RATES_DEVICE ==
    << "B", "B", "P", "L", "L", ":", "7", "6", "8", "0", "0", "0", "0", "0",
       "0", " ", "D", "A", "C", ":", "4", "8", "0", "0", "0", "0", "0", "0",
       " ", "T", "2", ":", "2", "4", "0", "0", "0", "0", "0", "0", " ", "T",
       "1", ":", "1", "2", "0", "0", "0", "0", "0", "0", " ", "T", "F", ":",
       "1", "2", "0", "0", "0", "0", "0", "0", " ", "T", "X", "S", "A", "M",
       "P", ":", "3", "0", "0", "0", "0", "0", "0" >>

\* "BBPLL:64 DAC:32 T2:32 T1:16 TF:8 TXSAMP:0"
RATES_TX_ZERO ==
    << "B", "B", "P", "L", "L", ":", "6", "4", " ", "D", "A", "C", ":", "3",
       "2", " ", "T", "2", ":", "3", "2", " ", "T", "1", ":", "1", "6", " ",
       "T", "F", ":", "8", " ", "T", "X", "S", "A", "M", "P", ":", "0" >>

\* "BBPLL:64 DAC:32 T2:32"
RATES_TRUNCATED ==
    << "B", "B", "P", "L", "L", ":", "6", "4", " ", "D", "A", "C", ":", "3",
       "2", " ", "T", "2", ":", "3", "2" >>

\* "BBPLL:64 DAC:3x T2:32 T1:16 TF:8 TXSAMP:4"
RATES_NOT_A_NUMBER ==
    << "B", "B", "P", "L", "L", ":", "6", "4", " ", "D", "A", "C", ":", "3",
       "x", " ", "T", "2", ":", "3", "2", " ", "T", "1", ":", "1", "6", " ",
       "T", "F", ":", "8", " ", "T", "X", "S", "A", "M", "P", ":", "4" >>

\* "BBPLL:64 DAC:32 T2:32 T1:16 TF:8 TXSAMP 4"
RATES_NO_COLON ==
    << "B", "B", "P", "L", "L", ":", "6", "4", " ", "D", "A", "C", ":", "3",
       "2", " ", "T", "2", ":", "3", "2", " ", "T", "1", ":", "1", "6", " ",
       "T", "F", ":", "8", " ", "T", "X", "S", "A", "M", "P", " ", "4" >>

TxPathRates ==
    {RATES_RATIO_8, RATES_RATIO_7, RATES_DEVICE, RATES_TX_ZERO,
     RATES_TRUNCATED, RATES_NOT_A_NUMBER, RATES_NO_COLON}

\* ------------------------------------------------------------ Python strings
DigitChars == <<"0", "1", "2", "3", "4", "5", "6", "7", "8", "9">>

Whitespace == {" ", "\n", "\t", "\r"}

IsDigit(c) == \E d \in 1..10 : DigitChars[d] = c

DigitValue(c) == (CHOOSE d \in 1..10 : DigitChars[d] = c) - 1

RECURSIVE str_digits(_)
\* decimal digits of n >= 0, most significant first
str_digits(n) ==
    IF n < 10 THEN <<DigitChars[n + 1]>>
    ELSE str_digits(n \div 10) \o <<DigitChars[(n % 10) + 1]>>

\* str(n) for an int n
str(n) == IF n < 0 THEN <<"-">> \o str_digits(-n) ELSE str_digits(n)

RECURSIVE split_range(_, _, _, _)
\* the pieces of s[lo..hi] between occurrences of the one-character sep; the
\* range is halved and the piece the cut runs through is glued together again
split_range(s, sep, lo, hi) ==
    IF lo > hi THEN <<<<>>>>
    ELSE IF lo = hi THEN (IF s[lo] = sep THEN <<<<>>, <<>>>> ELSE <<<<s[lo]>>>>)
    ELSE LET mid == (lo + hi) \div 2
             l == split_range(s, sep, lo, mid)
             r == split_range(s, sep, mid + 1, hi)
         IN  SubSeq(l, 1, Len(l) - 1) \o <<l[Len(l)] \o r[1]>> \o Tail(r)

\* s.split(sep)
split(s, sep) == split_range(s, sep, 1, Len(s))

RECURSIVE lstrip(_)
lstrip(s) ==
    IF s # <<>> /\ Head(s) \in Whitespace THEN lstrip(Tail(s)) ELSE s

RECURSIVE rstrip(_)
rstrip(s) ==
    IF s # <<>> /\ s[Len(s)] \in Whitespace
    THEN rstrip(SubSeq(s, 1, Len(s) - 1)) ELSE s

RECURSIVE digits_value(_, _)
\* value of the digit string s read after the value acc
digits_value(s, acc) ==
    IF s = <<>> THEN acc
    ELSE digits_value(Tail(s), acc * 10 + DigitValue(Head(s)))

\* int(s): surrounding whitespace stripped, an optional sign, then digits;
\* anything else raises ValueError
int(s) ==
    LET t == rstrip(lstrip(s))
        signed == t # <<>> /\ Head(t) \in {"+", "-"}
        body == IF signed THEN Tail(t) ELSE t
    IN  IF body = <<>> \/ \E i \in 1..Len(body) : ~IsDigit(body[i])
        THEN [ok |-> FALSE, exc |-> "ValueError", val |-> 0]
        ELSE [ok |-> TRUE, exc |-> "",
              val |-> IF signed /\ Head(t) = "-"
                      THEN -digits_value(body, 0) ELSE digits_value(body, 0)]

\* int(readbuf.split(" ")[k].split(":")[1]), k counted from 0 as in Python:
\* IndexError when a subscript is out of range, ValueError from int()
rate_field(readbuf, k) ==
    LET tokens == split(readbuf, " ")
    IN  IF k + 1 > Len(tokens)
        THEN [ok |-> FALSE, exc |-> "IndexError", val |-> 0]
        ELSE LET parts == split(tokens[k + 1], ":")
             IN  IF Len(parts) < 2
                 THEN [ok |-> FALSE, exc |-> "IndexError", val |-> 0]
                 ELSE int(parts[2])

\* ------------------------------------------------------------ sample_rate: decisions
\* the floor compared one too low
rate_rejected_low(r) == r < MIN_RATE - 1

\* rate < 521e3
rate_rejected(r) == r < MIN_RATE

\* the brackets closed below instead of above
sample_rate_filter_strict(r) ==
    IF r < RATE_BRACKET_1 THEN [dec |-> 4, fir |-> FIR_128_4, taps |-> 128]
    ELSE IF r < RATE_BRACKET_2 THEN [dec |-> 2, fir |-> FIR_128_2, taps |-> 128]
    ELSE IF r < RATE_BRACKET_3 THEN [dec |-> 2, fir |-> FIR_96_2, taps |-> 96]
    ELSE [dec |-> 2, fir |-> FIR_64_2, taps |-> 64]

\* the if/elif chain choosing dec, fir and taps
sample_rate_filter(r) ==
    IF r <= RATE_BRACKET_1 THEN [dec |-> 4, fir |-> FIR_128_4, taps |-> 128]
    ELSE IF r <= RATE_BRACKET_2 THEN [dec |-> 2, fir |-> FIR_128_2, taps |-> 128]
    ELSE IF r <= RATE_BRACKET_3 THEN [dec |-> 2, fir |-> FIR_96_2, taps |-> 96]
    ELSE [dec |-> 2, fir |-> FIR_64_2, taps |-> 64]

\* the test of the flag inverted
fir_enabled_inverted(v) == v = 0

\* truth value of the number read from voltage_filter_fir_en
fir_enabled(v) == v # 0

\* the threshold rate itself taken for a wideband rate
bootstrap_before_disable_strict(cur) == cur < NARROWBAND_MAX

\* current_rate <= (25000000 // 12)
bootstrap_before_disable(cur) == cur <= NARROWBAND_MAX

\* 25000000 / 12 rounded up instead of down
is_narrowband_rounded_up(r) == r <= NARROWBAND_MAX + 1

\* rate <= (25000000 // 12)
is_narrowband(r) == r <= NARROWBAND_MAX

\* max_rate = (dacrate // txrate) * 16
max_rate_for(dac, tx) == (dac \div tx) * 16

\* the bootstrap also forced when max_rate equals taps
bootstrap_before_enable_or_equal(mx, t) == mx <= t

\* max_rate < taps
bootstrap_before_enable(mx, t) == mx < t

\* str(fir[i]) + "," + str(fir[i]) + "\n"
fir_line(c) == str(c) \o <<",">> \o str(c) \o <<"\n">>

RECURSIVE fir_lines(_, _, _)
\* what the rounds lo..hi of the loop "for i in range(taps)" append (rounds
\* counted from 1), the range halved to keep the evaluation shallow
fir_lines(coeffs, lo, hi) ==
    IF lo > hi THEN <<>>
    ELSE IF lo = hi THEN fir_line(coeffs[lo])
    ELSE LET mid == (lo + hi) \div 2
         IN  fir_lines(coeffs, lo, mid) \o fir_lines(coeffs, mid + 1, hi)

\* the loop run one round short: range(taps - 1)
fir_config_string_short(d, coeffs, t) ==
    RX_HEADER \o str(d) \o <<"\n">>
    \o TX_HEADER \o str(d) \o <<"\n">>
    \o fir_lines(coeffs, 1, t - 1)
    \o <<"\n">>

\* the FIR filter config string
fir_config_string(d, coeffs, t) ==
    RX_HEADER \o str(d) \o <<"\n">>
    \o TX_HEADER \o str(d) \o <<"\n">>
    \o fir_lines(coeffs, 1, t)
    \o <<"\n">>

\* ------------------------------------------------------------ rx_only: decisions
\* len(data) % 2 != 0
odd_length(d) == Len(d) % 2 # 0

\* [data[i] + 1j * data[i + 1] for i in range(0, len(data), 2)]
complex_pairs(d) ==
    [k \in 1..(Len(d) \div 2) |-> [re |-> d[2 * k - 1], im |-> d[2 * k]]]

\* self.rx_data == 2: a list never equals an int
list_eq_int(l, n) == FALSE

\* len(x) is defined for a list, not for a bool
has_len(x) == x \notin BOOLEAN

\* raw buffers _rx_buffered_data() may return
Buffers == UNION {[1..n -> RawValues] : n \in 0..MaxBuf}

\* ------------------------------------------------------------ state
VARIABLES
    dev,            \* the device's attributes, by name
    rx_data,        \* self.rx_data
    op,             \* the method running or last run
    pc,             \* the line it stands at; "idle" at first, "done" when it ended
    rate, dec, fir, taps, current_rate, readbuf, dacrate, txrate, max_rate,
    get, data,      \* rx_only's argument and local
    outcome,        \* how the call ended: a return or the exception raised
    result,         \* the value returned
    writes,         \* device-attribute writes the call issued so far, in order
    reads,          \* device attributes the call read so far, in order
    entry           \* dev and rx_data as the call found them

vars ==
    <<dev, rx_data, op, pc, rate, dec, fir, taps, current_rate, readbuf,
      dacrate, txrate, max_rate, get, data, outcome, result, writes, reads,
      entry>>

rateLocals ==
    <<rate, dec, fir, taps, current_rate, readbuf, dacrate, txrate, max_rate>>

rxLocals == <<get, data>>

NoOutcome == [kind |-> "none", exc |-> "", line |-> 0]

NoResult == [given |-> FALSE, val |-> <<>>]

Init ==
    /\ dev \in [sampling_frequency : InitialRates,
                voltage_filter_fir_en : {0, 1},
                filter_fir_config : {<<>>}]
    /\ rx_data = <<>>
    /\ op = "none"
    /\ pc = "idle"
    /\ rate = 0 /\ dec = 0 /\ fir = <<>> /\ taps = 0 /\ current_rate = 0
    /\ readbuf = <<>> /\ dacrate = 0 /\ txrate = 0 /\ max_rate = 0
    /\ get = FALSE /\ data = <<>>
    /\ outcome = NoOutcome
    /\ result = NoResult
    /\ writes = <<>>
    /\ reads = <<>>
    /\ entry = [dev |-> dev, rx_data |-> rx_data]

\* ------------------------------------------------------------ control and device
Goto(l) == pc' = l /\ UNCHANGED <<outcome, result>>

Raise(exc, line) ==
    /\ pc' = "done"
    /\ outcome' = [kind |-> "raise", exc |-> exc, line |-> line]
    /\ UNCHANGED result

Return(v) ==
    /\ pc' = "done"
    /\ outcome' = [kind |-> "return", exc |-> "", line |-> 0]
    /\ result' = [given |-> TRUE, val |-> v]

ReturnNone ==
    /\ pc' = "done"
    /\ outcome' = [kind |-> "return", exc |-> "", line |-> 0]
    /\ result' = NoResult

\* an attribute write: the device keeps the value written
WriteAttr(attr, val) ==
    /\ dev' = [dev EXCEPT ![attr] = val]
    /\ writes' = Append(writes, [attr |-> attr, val |-> val])

\* an attribute read
ReadAttr(attr) == reads' = Append(reads, attr)

\* a call starts on the idle object; entry keeps what it found
Enter(name, r, g) ==
    /\ pc = "idle"
    /\ op' = name
    /\ rate' = r
    /\ get' = g
    /\ entry' = [dev |-> dev, rx_data |-> rx_data]
    /\ UNCHANGED <<dev, rx_data, dec, fir, taps, current_rate, readbuf,
                   dacrate, txrate, max_rate, data, outcome, result, writes,
                   reads>>

\* the call is over and its frame is gone: the object is idle again
Leave ==
    /\ pc = "done"
    /\ pc' = "idle"
    /\ op' = "none"
    /\ rate' = 0 /\ dec' = 0 /\ fir' = <<>> /\ taps' = 0 /\ current_rate' = 0
    /\ readbuf' = <<>> /\ dacrate' = 0 /\ txrate' = 0 /\ max_rate' = 0
    /\ get' = FALSE /\ data' = <<>>
    /\ outcome' = NoOutcome
    /\ result' = NoResult
    /\ writes' = <<>>
    /\ reads' = <<>>
    /\ entry' = [dev |-> dev, rx_data |-> rx_data]
    /\ UNCHANGED <<dev, rx_data>>

\* ------------------------------------------------------------ sample_rate setter
\* obj.sample_rate = r
CallSampleRate ==
    \E r \in Rates :
        /\ Enter("sample_rate", r, FALSE)
        /\ pc' = "L115"

\* if rate < 521e3: raise ValueError
CheckRate ==
    /\ pc = "L115"
    /\ IF rate_rejected(rate) THEN Raise("ValueError", 116) ELSE Goto("L122")
    /\ UNCHANGED <<dev, rx_data, op, rateLocals, rxLocals, writes, reads, entry>>

\* the filter table
SelectFilter ==
    /\ pc = "L122"
    /\ LET f == sample_rate_filter(rate)
       IN  dec' = f.dec /\ fir' = f.fir /\ taps' = f.taps
    /\ Goto("L175")
    /\ UNCHANGED <<dev, rx_data, op, rate, current_rate, readbuf, dacrate,
                   txrate, max_rate, rxLocals, writes, reads, entry>>

\* current_rate = self._get_iio_attr("voltage0", "sampling_frequency", False)
ReadCurrentRate ==
    /\ pc = "L175"
    /\ current_rate' = dev.sampling_frequency
    /\ ReadAttr("sampling_frequency")
    /\ Goto("L177")
    /\ UNCHANGED <<dev, rx_data, op, rate, dec, fir, taps, readbuf, dacrate,
                   txrate, max_rate, rxLocals, writes, entry>>

\* the disabling write indented under the inner if: without a bootstrap the
\* filter stays enabled
CheckFirEnabledNested ==
    /\ pc = "L177"
    /\ ReadAttr("voltage_filter_fir_en")
    /\ IF fir_enabled(dev.voltage_filter_fir_en)
          /\ bootstrap_before_disable(current_rate)
       THEN Goto("L179")
       ELSE Goto("L183")
    /\ UNCHANGED <<dev, rx_data, op, rateLocals, rxLocals, writes, entry>>

\* if self._get_iio_attr("out", "voltage_filter_fir_en", False):
\*     if current_rate <= (25000000 // 12):
CheckFirEnabled ==
    /\ pc = "L177"
    /\ ReadAttr("voltage_filter_fir_en")
    /\ IF fir_enabled(dev.voltage_filter_fir_en)
       THEN IF bootstrap_before_disable(current_rate)
            THEN Goto("L179") ELSE Goto("L180")
       ELSE Goto("L183")
    /\ UNCHANGED <<dev, rx_data, op, rateLocals, rxLocals, writes, entry>>

\* self._set_iio_attr("voltage0", "sampling_frequency", False, 3000000)
BootstrapBeforeDisable ==
    /\ pc = "L179"
    /\ WriteAttr("sampling_frequency", BOOTSTRAP_RATE)
    /\ Goto("L180")
    /\ UNCHANGED <<rx_data, op, rateLocals, rxLocals, reads, entry>>

\* self._set_iio_attr("out", "voltage_filter_fir_en", False, 0)
DisableFir ==
    /\ pc = "L180"
    /\ WriteAttr("voltage_filter_fir_en", 0)
    /\ Goto("L183")
    /\ UNCHANGED <<rx_data, op, rateLocals, rxLocals, reads, entry>>

\* assemble the config string and write it to filter_fir_config;
\* fir[i] raises IndexError if the table is shorter than taps
WriteFirConfig ==
    /\ pc = "L183"
    /\ IF taps > Len(fir)
       THEN /\ Raise("IndexError", 187)
            /\ UNCHANGED <<dev, writes>>
       ELSE /\ WriteAttr("filter_fir_config", fir_config_string(dec, fir, taps))
            /\ IF is_narrowband(rate) THEN Goto("L192") ELSE Goto("L201")
    /\ UNCHANGED <<rx_data, op, rateLocals, rxLocals, reads, entry>>

\* readbuf = self._get_iio_dev_attr_str("tx_path_rates")
ReadTxPathRates ==
    /\ pc = "L192"
    /\ \E s \in TxPathRates : readbuf' = s
    /\ ReadAttr("tx_path_rates")
    /\ Goto("L193")
    /\ UNCHANGED <<dev, rx_data, op, rate, dec, fir, taps, current_rate,
                   dacrate, txrate, max_rate, rxLocals, writes, entry>>

\* dacrate = int(readbuf.split(" ")[1].split(":")[1])
ParseDacRate ==
    /\ pc = "L193"
    /\ LET f == rate_field(readbuf, 1)
       IN  IF f.ok
           THEN dacrate' = f.val /\ Goto("L194")
           ELSE UNCHANGED dacrate /\ Raise(f.exc, 193)
    /\ UNCHANGED <<dev, rx_data, op, rate, dec, fir, taps, current_rate,
                   readbuf, txrate, max_rate, rxLocals, writes, reads, entry>>

\* txrate = int(readbuf.split(" ")[5].split(":")[1])
ParseTxRate ==
    /\ pc = "L194"
    /\ LET f == rate_field(readbuf, 5)
       IN  IF f.ok
           THEN txrate' = f.val /\ Goto("L195")
           ELSE UNCHANGED txrate /\ Raise(f.exc, 194)
    /\ UNCHANGED <<dev, rx_data, op, rate, dec, fir, taps, current_rate,
                   readbuf, dacrate, max_rate, rxLocals, writes, reads, entry>>

\* max_rate = (dacrate // txrate) * 16; if max_rate < taps:
ComputeMaxRate ==
    /\ pc = "L195"
    /\ IF txrate = 0
       THEN UNCHANGED max_rate /\ Raise("ZeroDivisionError", 195)
       ELSE /\ max_rate' = max_rate_for(dacrate, txrate)
            /\ IF bootstrap_before_enable(max_rate', taps)
               THEN Goto("L197") ELSE Goto("L198")
    /\ UNCHANGED <<dev, rx_data, op, rate, dec, fir, taps, current_rate,
                   readbuf, dacrate, txrate, rxLocals, writes, reads, entry>>

\* self._set_iio_attr("voltage0", "sampling_frequency", False, 3000000)
BootstrapBeforeEnable ==
    /\ pc = "L197"
    /\ WriteAttr("sampling_frequency", BOOTSTRAP_RATE)
    /\ Goto("L198")
    /\ UNCHANGED <<rx_data, op, rateLocals, rxLocals, reads, entry>>

\* self._set_iio_attr("out", "voltage_filter_fir_en", False, 1)
EnableFirNarrow ==
    /\ pc = "L198"
    /\ WriteAttr("voltage_filter_fir_en", 1)
    /\ Goto("L199")
    /\ UNCHANGED <<rx_data, op, rateLocals, rxLocals, reads, entry>>

\* self._set_iio_attr("voltage0", "sampling_frequency", False, rate)
CommitRateNarrow ==
    /\ pc = "L199"
    /\ WriteAttr("sampling_frequency", rate)
    /\ ReturnNone
    /\ UNCHANGED <<rx_data, op, rateLocals, rxLocals, reads, entry>>

\* else: self._set_iio_attr("voltage0", "sampling_frequency", False, rate)
CommitRateWide ==
    /\ pc = "L201"
    /\ WriteAttr("sampling_frequency", rate)
    /\ Goto("L202")
    /\ UNCHANGED <<rx_data, op, rateLocals, rxLocals, reads, entry>>

\* self._set_iio_attr("out", "voltage_filter_fir_en", False, 1)
EnableFirWide ==
    /\ pc = "L202"
    /\ WriteAttr("voltage_filter_fir_en", 1)
    /\ ReturnNone
    /\ UNCHANGED <<rx_data, op, rateLocals, rxLocals, reads, entry>>

\* ------------------------------------------------------------ rx_only
\* obj.rx_only(get)
CallRxOnly ==
    \E g \in BOOLEAN :
        /\ Enter("rx_only", 0, g)
        /\ pc' = "L258"

\* if get: return self.rx_data
RxGet ==
    /\ pc = "L258"
    /\ IF get THEN Return(rx_data) ELSE Goto("L261")
    /\ UNCHANGED <<dev, rx_data, op, rateLocals, rxLocals, writes, reads, entry>>

\* data = self._rx_buffered_data()
RxFetch ==
    /\ pc = "L261"
    /\ \E d \in Buffers : data' = d
    /\ Goto("L263")
    /\ UNCHANGED <<dev, rx_data, op, rateLocals, get, writes, reads, entry>>

\* the parity check made after the assignment instead of before it
RxCheckParityAfterStore ==
    /\ pc = "L263"
    /\ IF odd_length(data)
       THEN rx_data' = complex_pairs(data) /\ Raise("Exception", 264)
       ELSE UNCHANGED rx_data /\ Goto("L268")
    /\ UNCHANGED <<dev, op, rateLocals, rxLocals, writes, reads, entry>>

\* if len(data) % 2 != 0: raise Exception
RxCheckParity ==
    /\ pc = "L263"
    /\ IF odd_length(data) THEN Raise("Exception", 264) ELSE Goto("L268")
    /\ UNCHANGED <<dev, rx_data, op, rateLocals, rxLocals, writes, reads, entry>>

\* self.rx_data = [...]
RxAssemble ==
    /\ pc = "L268"
    /\ rx_data' = complex_pairs(data)
    /\ Goto("L271")
    /\ UNCHANGED <<dev, op, rateLocals, rxLocals, writes, reads, entry>>

\* if len(self.rx_data == 2): self.rx_data = self.rx_data[0]
\* return self.rx_data
RxSingleChannel ==
    /\ pc = "L271"
    /\ LET cmp == list_eq_int(rx_data, 2)
       IN  IF ~has_len(cmp)
           THEN UNCHANGED rx_data /\ Raise("TypeError", 271)
           ELSE IF Len(cmp) # 0
                THEN rx_data' = rx_data[1] /\ Return(rx_data')
                ELSE UNCHANGED rx_data /\ Return(rx_data)
    /\ UNCHANGED <<dev, op, rateLocals, rxLocals, writes, reads, entry>>

\* ------------------------------------------------------------ specification
Next ==
    \/ CallSampleRate
    \/ CheckRate
    \/ SelectFilter
    \/ ReadCurrentRate
    \/ CheckFirEnabled
    \/ BootstrapBeforeDisable
    \/ DisableFir
    \/ WriteFirConfig
    \/ ReadTxPathRates
    \/ ParseDacRate
    \/ ParseTxRate
    \/ ComputeMaxRate
    \/ BootstrapBeforeEnable
    \/ EnableFirNarrow
    \/ CommitRateNarrow
    \/ CommitRateWide
    \/ EnableFirWide
    \/ CallRxOnly
    \/ RxGet
    \/ RxFetch
    \/ RxCheckParity
    \/ RxAssemble
    \/ RxSingleChannel
    \/ Leave

Spec == Init /\ [][Next]_vars

\* ------------------------------------------------------------ what the claims speak of
\* the header lines of the payload, as the device documentation spells them
\* "RX 3 GAIN -6 DEC 4"
RX_LINE_DEC_4 ==
    << "R", "X", " ", "3", " ", "G", "A", "I", "N", " ", "-", "6", " ", "D",
       "E", "C", " ", "4" >>

\* "TX 3 GAIN 0 INT 4"
TX_LINE_INT_4 ==
    << "T", "X", " ", "3", " ", "G", "A", "I", "N", " ", "0", " ", "I", "N",
       "T", " ", "4" >>

\* "RX 3 GAIN -6 DEC 2"
RX_LINE_DEC_2 ==
    << "R", "X", " ", "3", " ", "G", "A", "I", "N", " ", "-", "6", " ", "D",
       "E", "C", " ", "2" >>

\* "TX 3 GAIN 0 INT 2"
TX_LINE_INT_2 ==
    << "T", "X", " ", "3", " ", "G", "A", "I", "N", " ", "0", " ", "I", "N",
       "T", " ", "2" >>

W(attr, val) == [attr |-> attr, val |-> val]

\* two write logs agree, attribute by attribute and value by value
SameWrites(ws, expected) ==
    /\ Len(ws) = Len(expected)
    /\ \A i \in 1..Len(ws) :
           ws[i].attr = expected[i].attr /\ ws[i].val = expected[i].val

\* positions of the filter-configuration writes in the log
ConfigWrites == {i \in 1..Len(writes) : writes[i].attr = "filter_fir_config"}

ConfigAt == CHOOSE i \in ConfigWrites : TRUE

WritesBeforeConfig == SubSeq(writes, 1, ConfigAt - 1)

WritesAfterConfig == SubSeq(writes, ConfigAt + 1, Len(writes))

Running(name) == op = name /\ pc # "idle"

Ended(name) == op = name /\ pc = "done"

Returned(name) == Ended(name) /\ outcome.kind = "return"

Raised(name, exc, line) ==
    Ended(name) /\ outcome.kind = "raise" /\ outcome.exc = exc
    /\ outcome.line = line

\* the spec's error outcomes
InvalidParameter == Raised("sample_rate", "ValueError", 116)

DataIntegrityError ==
    \/ Raised("rx_only", "Exception", 264)
    \/ /\ Ended("sample_rate") /\ outcome.kind = "raise"
       /\ outcome.line \in {193, 194}

\* ------------------------------------------------------------ claims
\* C1: for every requested rate r with 0 < r < 521,000 the sample_rate setter
\* ends with the InvalidParameter outcome (the ValueError of line 116) and has
\* issued no device-attribute write: sampling frequency, FIR-enable flag and
\* FIR configuration are what the call found.
C1_RejectedRateWritesNothing ==
    (Running("sample_rate") /\ 0 < rate /\ rate < 521000)
        => /\ writes = <<>>
           /\ dev = entry.dev
           /\ pc \in {"L115", "done"}
           /\ pc = "done" => InvalidParameter

C1_Witness ==
    Ended("sample_rate") /\ rate = 520999 /\ InvalidParameter
    /\ entry.dev.voltage_filter_fir_en = 1

\* the four brackets of the filter table, for the requested rate
C2_Brackets ==
    <<rate <= 20000000,
      20000000 < rate /\ rate <= 40000000,
      40000000 < rate /\ rate <= 53333333,
      rate > 53333333>>

C2_Profiles == <<<<4, 128>>, <<2, 128>>, <<2, 96>>, <<2, 64>>>>

\* C2: an accepted rate r >= 521,000 selects exactly one profile: (4, 128) up
\* to 20,000,000, (2, 128) above it up to 40,000,000, (2, 96) above that up to
\* 53,333,333, (2, 64) beyond; each threshold belongs to the lower bracket.
C2_FilterSelection ==
    (Running("sample_rate") /\ rate >= 521000 /\ pc \notin {"L115", "L122"})
        => /\ Cardinality({b \in 1..4 : C2_Brackets[b]}) = 1
           /\ \A b \in 1..4 : C2_Brackets[b] => <<dec, taps>> = C2_Profiles[b]

C2_Witness ==
    Running("sample_rate") /\ pc = "L175" /\ rate = 53333333
    /\ dec = 2 /\ taps = 96

\* the n complex samples a raw buffer of length 2n stands for
C3_Samples(raw) ==
    [i \in 0..((Len(raw) \div 2) - 1) |-> [re |-> raw[2 * i + 1], im |-> raw[2 * i + 2]]]

\* C3: for every even-length raw buffer of length 2n, rx_only(get=False)
\* completes without error and returns exactly n complex samples, sample i
\* being (raw[2i], raw[2i+1]) for i in 0..n-1 (0-based as in the claim).
C3_EvenBufferAssembled ==
    (Ended("rx_only") /\ ~get /\ Len(data) % 2 = 0)
        => /\ outcome.kind = "return"
           /\ result.given
           /\ Len(result.val) = Len(data) \div 2
           /\ \A i \in 0..((Len(data) \div 2) - 1) :
                  result.val[i + 1] = C3_Samples(data)[i]

\* C4: for every odd-length raw buffer, rx_only(get=False) fails with the
\* DataIntegrityError outcome (the Exception of line 264), returns nothing and
\* leaves rx_data as the call found it; rx_only(get=True) returns the stored
\* rx_data and leaves it alone, so it still yields the value stored before.
C4_OddBufferRejected ==
    /\ (Ended("rx_only") /\ ~get /\ Len(data) % 2 = 1)
           => /\ Raised("rx_only", "Exception", 264)
              /\ ~result.given
              /\ rx_data = entry.rx_data
    /\ (Ended("rx_only") /\ get)
           => /\ outcome.kind = "return"
              /\ result.given
              /\ result.val = entry.rx_data
              /\ rx_data = entry.rx_data

C4_Witness ==
    Raised("rx_only", "Exception", 264) /\ ~get /\ Len(data) = 3
    /\ Len(entry.rx_data) = 2 /\ rx_data = entry.rx_data

\* the lines of a payload: the text cut at every newline (the piece after the
\* last newline, empty for a payload that ends in one, included)
C5_Lines(payload) == split(payload, "\n")

\* a coefficient line reads "<c>,<c>"
C5_CoefficientLine(line, c) ==
    LET cols == split(line, ",")
    IN  /\ Len(cols) = 2
        /\ cols[1] = cols[2]
        /\ int(cols[1]).ok
        /\ int(cols[1]).val = c

\* C5: the payload of an accepted rate goes to the device in one single write
\* to filter_fir_config and reads, in order: "RX 3 GAIN -6 DEC <d>",
\* "TX 3 GAIN 0 INT <d>" with d the selected decimation, then exactly tapCount
\* lines "<c_i>,<c_i>" with c_i the i-th coefficient of the selected profile,
\* then one blank line.
C5_PayloadFormat ==
    /\ (Running("sample_rate") /\ pc \in {"L192", "L201"})
           => /\ ConfigWrites = {Len(writes)}
              /\ dev.filter_fir_config = writes[Len(writes)].val
              /\ LET lines == C5_Lines(writes[Len(writes)].val)
                 IN  /\ Len(lines) = taps + 4
                     /\ lines[1] = (IF dec = 4 THEN RX_LINE_DEC_4 ELSE RX_LINE_DEC_2)
                     /\ lines[2] = (IF dec = 4 THEN TX_LINE_INT_4 ELSE TX_LINE_INT_2)
                     /\ dec \in {2, 4}
                     /\ \A i \in 1..taps :
                            C5_CoefficientLine(lines[i + 2], fir[i])
                     /\ lines[taps + 3] = <<>>
                     /\ lines[taps + 4] = <<>>
    /\ Returned("sample_rate") => Cardinality(ConfigWrites) = 1

C5_Witness ==
    Running("sample_rate") /\ pc = "L201" /\ rate = 20000000 /\ dec = 4
    /\ taps = 128 /\ ConfigWrites = {Len(writes)}
    /\ Len(C5_Lines(dev.filter_fir_config)) = 132

\* C6 as the spec states it: an operation that fails with DataIntegrityError
\* (odd buffer, or malformed tx_path_rates in the setter) leaves sampling
\* frequency, FIR-enable flag and FIR configuration as they were before it.
C6_DataIntegrityErrorLeavesDevice ==
    DataIntegrityError => dev = entry.dev

\* the sampling frequency the setter leaves behind once it has taken the
\* filter down: the bootstrap rate if it found the filter enabled at a
\* narrowband rate, else the rate it found
C6_RateAfterDisable ==
    IF entry.dev.voltage_filter_fir_en # 0
       /\ entry.dev.sampling_frequency <= 2083333
    THEN 3000000
    ELSE entry.dev.sampling_frequency

\* C6, amended: the DataIntegrityError of an odd buffer leaves the device as
\* the call found it. The setter's failure on a malformed tx_path_rates
\* string comes after the filter-configuration write and before any later
\* write: the device then holds the new FIR configuration with the FIR-enable
\* flag 0, its sampling frequency is 3,000,000 if the filter was enabled at
\* entry at a rate <= 2,083,333 and unchanged otherwise, and neither the
\* enabling write nor the write of the requested rate has been issued.
C6_DataIntegrityErrorEffect ==
    DataIntegrityError =>
        IF op = "rx_only"
        THEN dev = entry.dev /\ writes = <<>>
        ELSE /\ ConfigWrites = {Len(writes)}
             /\ dev.filter_fir_config = writes[Len(writes)].val
             /\ dev.voltage_filter_fir_en = 0
             /\ dev.sampling_frequency = C6_RateAfterDisable

C6_Witness ==
    /\ DataIntegrityError /\ op = "sample_rate" /\ outcome.line = 194
    /\ entry.dev.voltage_filter_fir_en = 1
    /\ entry.dev.sampling_frequency = 2083333
    /\ dev.sampling_frequency = 3000000 /\ dev.voltage_filter_fir_en = 0

\* the writes the narrowband path issues after the configuration write, the
\* ratio dacRate / txRate taken as the exact quotient
C7_Expected ==
    (IF dacrate * 16 < taps * txrate
     THEN <<W("sampling_frequency", 3000000)>> ELSE <<>>)
    \o <<W("voltage_filter_fir_en", 1), W("sampling_frequency", rate)>>

\* C7: on the narrowband path (accepted r <= 2,083,333), with dacRate and
\* txRate parsed from tx_path_rates, the writes after the
\* filter-configuration write are, in this order: sampling frequency
\* 3,000,000 iff (dacRate / txRate) * 16 < tapCount; the write enabling the
\* filter; last, sampling frequency r. Until the two rates are parsed, and
\* in a call that ends because they cannot be, no write follows the
\* filter-configuration write.
C7_NarrowbandOrder ==
    /\ (Returned("sample_rate") /\ rate <= 2083333)
           => /\ Cardinality(ConfigWrites) = 1
              /\ SameWrites(WritesAfterConfig, C7_Expected)
    /\ (Running("sample_rate") /\ pc \in {"L197", "L198", "L199"})
           => /\ rate <= 2083333
              /\ Cardinality(ConfigWrites) = 1
              /\ Len(WritesAfterConfig) < Len(C7_Expected)
              /\ SameWrites(WritesAfterConfig,
                            SubSeq(C7_Expected, 1, Len(WritesAfterConfig)))
    /\ (Running("sample_rate") /\ rate <= 2083333 /\ ConfigWrites # {}
           /\ (pc \in {"L192", "L193", "L194", "L195"} \/ outcome.kind = "raise"))
           => WritesAfterConfig = <<>>

C7_Witness ==
    /\ Returned("sample_rate") /\ rate = 521000 /\ readbuf = RATES_RATIO_7
    /\ Len(WritesAfterConfig) = 3

\* the writes the setter issues before the configuration write
C8_Expected ==
    IF entry.dev.voltage_filter_fir_en # 0
    THEN (IF entry.dev.sampling_frequency <= 2083333
          THEN <<W("sampling_frequency", 3000000)>> ELSE <<>>)
         \o <<W("voltage_filter_fir_en", 0)>>
    ELSE <<>>

\* C8: with an accepted rate and the FIR-enable attribute set at entry, the
\* writes before the filter-configuration write are: sampling frequency
\* 3,000,000 iff the current sampling frequency is <= 2,083,333, then the
\* write disabling the filter. With the attribute not set at entry, no write
\* precedes the filter-configuration write.
C8_WritesBeforeConfig ==
    /\ (Running("sample_rate") /\ pc = "L183")
           => SameWrites(writes, C8_Expected)
    /\ (Running("sample_rate") /\ ConfigWrites # {})
           => SameWrites(WritesBeforeConfig, C8_Expected)

C8_Witness ==
    /\ Running("sample_rate") /\ pc = "L192"
    /\ entry.dev.voltage_filter_fir_en = 1
    /\ entry.dev.sampling_frequency = 2083333
    /\ Len(WritesBeforeConfig) = 2

\* C9: on the wideband path (accepted r > 2,083,333) the writes after the
\* filter-configuration write are exactly two: sampling frequency r, then
\* the write enabling the filter; tx_path_rates is not read and no write of
\* 3,000,000 follows the filter-configuration write.
C9_WidebandOrder ==
    /\ (Running("sample_rate") /\ rate > 2083333)
           => /\ \A i \in 1..Len(reads) : reads[i] # "tx_path_rates"
              /\ pc = "done" =>
                     /\ outcome.kind = "return"
                     /\ Cardinality(ConfigWrites) = 1
                     /\ SameWrites(WritesAfterConfig,
                                   <<W("sampling_frequency", rate),
                                     W("voltage_filter_fir_en", 1)>>)
    /\ (Running("sample_rate") /\ rate > 2083333 /\ pc = "L202")
           => /\ Cardinality(ConfigWrites) = 1
              /\ SameWrites(WritesAfterConfig, <<W("sampling_frequency", rate)>>)

C9_Witness ==
    Returned("sample_rate") /\ rate = 2083334 /\ Len(WritesAfterConfig) = 2

\* C10: with a device that keeps what is written and the setter its only
\* writer, the FIR-enable flag is 0 when filter_fir_config is written,
\* whatever flag and sampling frequency the call found; and after a setter
\* call for r that completes, the flag is 1 and the sampling frequency is r.
C10_FilterDownWhileProgrammed ==
    /\ (Running("sample_rate") /\ pc = "L183") => dev.voltage_filter_fir_en = 0
    /\ Returned("sample_rate")
           => dev.voltage_filter_fir_en = 1 /\ dev.sampling_frequency = rate

C10_Witness ==
    /\ Running("sample_rate") /\ pc = "L183"
    /\ entry.dev.voltage_filter_fir_en = 1
    /\ entry.dev.sampling_frequency > 2083333
    /\ dev.voltage_filter_fir_en = 0

=============================================================================
